---- MODULE Spec2Model ----
(***************************************************************************)
(* Socket.io event handlers of server.js: the `users` registry, the        *)
(* adapter's room membership, the handlers suspended at an await, and the  *)
(* events each handler emits.                                              *)
(***************************************************************************)
EXTENDS Naturals, Sequences, FiniteSets

\* ------------------------------------------------------------------ bounds

MaxConns == 2       \* sockets that connect during a run
MaxFinds == 1       \* joinRoom handlers awaiting GroupMessage.find at one time
MaxArchive == 1     \* documents saved or being saved

\* ------------------------------------------------------------------ inputs

SocketIds == <<"c1", "c2", "c3", "c4">>
Conns == {SocketIds[i] : i \in 1..MaxConns}
\* the sockets of the server: those of Conns and one more, which connects
\* only in SpecNames
Sockets == {SocketIds[i] : i \in 1..(MaxConns + 1)}

Usernames == {"alice", "bob"}
NoRoom == ""                                  \* a falsy room / to_user
ROOMS == {"sports", "devops"}
Msgs == {"m1"}
Bot == "Chat App Bot"

\* the payloads the clients of Spec send
JoinRooms == ROOMS
\* joinRoom does not validate data.room: a listed room and the falsy room
NameRooms == {"sports", NoRoom}
\* a listed room and a name that is the id of a socket
IdRooms == {"sports", SocketIds[1]}
DirectTo == {"alice"}
\* two message bodies, to tell two sends of one socket apart
OrderMsgs == {"m1", "m2"}
TypingNames == {"alice"}
TypingRooms == {"sports", NoRoom}
TypingTo == {"bob", NoRoom}

HasLeft(u) == IF u = "alice" THEN "alice has left the chat"
                             ELSE "bob has left the chat"
HasJoined(u) == IF u = "alice" THEN "alice has joined the chat"
                               ELSE "bob has joined the chat"
Welcome == "Welcome to chat app :)"

VARIABLES
    conn,       \* socket id -> "fresh" | "open" | "closed"
    users,      \* the registry, in key insertion order: <<[id, username, room]>>
    rooms,      \* socket id -> the adapter rooms the socket is in
    pending,    \* handlers suspended at an await, oldest first
    archive,    \* documents saved by the Message Archive
    ev,         \* the event or continuation handled last
    out,        \* the events emitted while handling it, in order
    logged      \* console.error was called while handling it

vars == <<conn, users, rooms, pending, archive, ev, out, logged>>

\* ---------------------------------------------------------------- registry

Has(us, id) == \E i \in 1..Len(us) : us[i].id = id

IndexOf(us, id) == CHOOSE i \in 1..Len(us) : us[i].id = id

\* users[socket.id]: the user object {username, room}
UserOf(us, id) ==
    LET e == us[IndexOf(us, id)] IN [username |-> e.username, room |-> e.room]

\* an assignment that moves an existing key to the end
PutLast(us, id, username, room) ==
    Append(SelectSeq(us, LAMBDA e : e.id # id),
           [id |-> id, username |-> username, room |-> room])

\* users[socket.id] = {username, room}: an existing key keeps its place in
\* the iteration order, a new key goes last
Put(us, id, username, room) ==
    LET e == [id |-> id, username |-> username, room |-> room] IN
    IF Has(us, id)
    THEN [us EXCEPT ![IndexOf(us, id)] = e]
    ELSE Append(us, e)

\* a delete that leaves the entry in place
DeleteKeeps(us, id) == us

\* a delete that clears the room of the entry and keeps its identity
DeleteUnbinds(us, id) ==
    [i \in 1..Len(us) |->
        IF us[i].id = id THEN [us[i] EXCEPT !.room = ""] ELSE us[i]]

\* delete users[socket.id]
Delete(us, id) == SelectSeq(us, LAMBDA e : e.id # id)

UserObj(e) == [username |-> e.username, room |-> e.room]

MapUserObj(s) == [i \in 1..Len(s) |-> UserObj(s[i])]

getRoomUsers(us, room) ==
    MapUserObj(SelectSeq(us, LAMBDA e : e.room = room))

\* a lookup that returns the last match
FindRecipientLast(us, to_user) ==
    LET hits == {i \in 1..Len(us) : us[i].username = to_user} IN
    IF hits = {} THEN 0
    ELSE CHOOSE i \in hits : \A j \in hits : i >= j

\* Object.entries(users).find(([, u]) => u.username === to_user): the index
\* of the first match, 0 when there is none
FindRecipient(us, to_user) ==
    LET hits == {i \in 1..Len(us) : us[i].username = to_user} IN
    IF hits = {} THEN 0
    ELSE CHOOSE i \in hits : \A j \in hits : i <= j

\* --------------------------------------------------------------- transport

InRoom(rms, cn, room) == {c \in Sockets : cn[c] = "open" /\ room \in rms[c]}

IoTo(rms, cn, room, event, data) ==
    [via |-> "io.to", to |-> room, event |-> event,
     recv |-> InRoom(rms, cn, room), data |-> data]

BroadcastTo(rms, cn, id, room, event, data) ==
    [via |-> "socket.broadcast.to", to |-> room, event |-> event,
     recv |-> InRoom(rms, cn, room) \ {id}, data |-> data]

SocketEmit(cn, id, event, data) ==
    [via |-> "socket.emit", to |-> id, event |-> event,
     recv |-> IF cn[id] = "open" THEN {id} ELSE {}, data |-> data]

Notice(text) == [from_user |-> Bot, message |-> text]
Roster(us, room) == [users |-> getRoomUsers(us, room)]
NoData == [none |-> TRUE]

\* -------------------------------------------------------------------- init

Init ==
    /\ conn = [c \in Sockets |-> "fresh"]
    /\ users = <<>>
    /\ rooms = [c \in Sockets |-> {}]
    /\ pending = <<>>
    /\ archive = <<>>
    /\ ev = [kind |-> "listen"]
    /\ out = <<>>
    /\ logged = FALSE

\* io.on('connection'): the socket is in the room named by its own id
Connect(c) ==
    /\ conn[c] = "fresh"
    /\ conn' = [conn EXCEPT ![c] = "open"]
    /\ rooms' = [rooms EXCEPT ![c] = {c}]
    /\ ev' = [kind |-> "connection", id |-> c]
    /\ out' = <<>>
    /\ logged' = FALSE
    /\ UNCHANGED <<users, pending, archive>>

\* a departure that sends the notice and no roster
LeaveEmitsNoticeOnly(rms, cn, us, user) ==
    << [via |-> "io.to", to |-> user.room, event |-> "message",
        recv |-> {c \in Sockets : cn[c] = "open" /\ user.room \in rms[c]},
        data |-> [from_user |-> "Chat App Bot",
                  message |-> IF user.username = "alice"
                              THEN "alice has left the chat"
                              ELSE "bob has left the chat"]] >>

\* the 'left' notice and the roster a handler sends to the room of the user
\* object `user` when it departs; the registry `us` still holds the entry
LeaveEmits(rms, cn, us, user) ==
    << IoTo(rms, cn, user.room, "message", Notice(HasLeft(user.username))),
       IoTo(rms, cn, user.room, "roomUsers", Roster(us, user.room)) >>

\* a join whose 'joined' notice goes to the whole room, the joiner included
JoinEmitsToAll(rms, cn, us, id, username, room) ==
    << [via |-> "socket.emit", to |-> id, event |-> "message",
        recv |-> IF cn[id] = "open" THEN {id} ELSE {},
        data |-> [from_user |-> "Chat App Bot",
                  message |-> "Welcome to chat app :)"]],
       [via |-> "io.to", to |-> room, event |-> "message",
        recv |-> {c \in Sockets : cn[c] = "open" /\ room \in rms[c]},
        data |-> [from_user |-> "Chat App Bot",
                  message |-> IF username = "alice"
                              THEN "alice has joined the chat"
                              ELSE "bob has joined the chat"]],
       [via |-> "io.to", to |-> room, event |-> "roomUsers",
        recv |-> {c \in Sockets : cn[c] = "open" /\ room \in rms[c]},
        data |-> [users |-> getRoomUsers(us, room)]] >>

\* the welcome, the 'joined' notice and the roster of a join
JoinEmits(rms, cn, us, id, username, room) ==
    << SocketEmit(cn, id, "message", Notice(Welcome)),
       BroadcastTo(rms, cn, id, room, "message", Notice(HasJoined(username))),
       IoTo(rms, cn, room, "roomUsers", Roster(us, room)) >>

\* socket.leave(room) / socket.join(room)
SocketLeave(rms, id, room) == [rms EXCEPT ![id] = @ \ {room}]
SocketJoin(rms, id, room) == [rms EXCEPT ![id] = @ \cup {room}]

\* the handler leaves the previous room only when the entry has a truthy room
HasPrevRoom(us, id) == Has(us, id) /\ UserOf(us, id).room # NoRoom

\* joinRoom handlers whose find is awaited
FindsInFlight ==
    Len(SelectSeq(pending, LAMBDA p : p.kind = "joinRoom"))

\* socket.on('joinRoom'), up to its await of GroupMessage.find
JoinRoom(c, username, room) ==
    /\ conn[c] = "open"
    /\ FindsInFlight < MaxFinds
    /\ LET leaving == HasPrevRoom(users, c)
           rooms1 == IF leaving
                     THEN SocketLeave(rooms, c, UserOf(users, c).room)
                     ELSE rooms
           left == IF leaving
                   THEN LeaveEmits(rooms1, conn, users, UserOf(users, c))
                   ELSE <<>>
           users2 == Put(users, c, username, room)
           rooms2 == SocketJoin(rooms1, c, room)
       IN /\ users' = users2
          /\ rooms' = rooms2
          /\ out' = left \o JoinEmits(rooms2, conn, users2, c, username, room)
          /\ pending' = Append(pending,
                               [kind |-> "joinRoom", id |-> c, room |-> room])
    /\ ev' = [kind |-> "joinRoom", id |-> c, username |-> username, room |-> room]
    /\ logged' = FALSE
    /\ UNCHANGED <<conn, archive>>

\* documents whose save is awaited
SavesInFlight ==
    Len(SelectSeq(pending, LAMBDA p : p.kind # "joinRoom"))

\* fewer than n documents are saved or being saved
CanSendWithin(n) == Len(archive) + SavesInFlight < n

CanSend == CanSendWithin(MaxArchive)

\* socket.on('chatMessage'), up to its await of groupMessage.save, while
\* fewer than n documents are saved or being saved
ChatMessageWithin(n, c, msg) ==
    /\ conn[c] = "open"
    /\ IF ~Has(users, c)
       THEN UNCHANGED pending
       ELSE /\ CanSendWithin(n)
            /\ LET user == UserOf(users, c)
                   messageData == [from_user |-> user.username,
                                   room |-> user.room, message |-> msg]
               IN pending' = Append(pending, [kind |-> "chatMessage", id |-> c,
                                              messageData |-> messageData])
    /\ ev' = [kind |-> "chatMessage", id |-> c, message |-> msg]
    /\ out' = <<>>
    /\ logged' = FALSE
    /\ UNCHANGED <<conn, users, rooms, archive>>

ChatMessage(c, msg) == ChatMessageWithin(MaxArchive, c, msg)

\* socket.on('privateMessage'), up to its await of privateMsg.save
PrivateMessage(c, to_user, message) ==
    /\ conn[c] = "open"
    /\ IF ~Has(users, c)
       THEN UNCHANGED pending
       ELSE /\ CanSend
            /\ LET user == UserOf(users, c)
                   messageData == [from_user |-> user.username,
                                   to_user |-> to_user, message |-> message]
               IN pending' = Append(pending, [kind |-> "privateMessage", id |-> c,
                                              messageData |-> messageData])
    /\ ev' = [kind |-> "privateMessage", id |-> c, to_user |-> to_user,
              message |-> message]
    /\ out' = <<>>
    /\ logged' = FALSE
    /\ UNCHANGED <<conn, users, rooms, archive>>

Remove(s, i) == SubSeq(s, 1, i - 1) \o SubSeq(s, i + 1, Len(s))

\* emits that sit inside the try block: a rejected save skips them
AfterTryInside(ok, emits) == IF ok THEN emits ELSE <<>>

\* the statements after a try/catch run whether the awaited call resolved
\* or rejected
AfterTry(ok, emits) == emits

\* the broadcast of a group message, after the save
GroupEmits(rms, cn, messageData) ==
    << IoTo(rms, cn, messageData.room, "message", messageData) >>

\* the delivery and the echo of a private message, after the save
PrivateEmits(rms, cn, us, id, messageData) ==
    LET r == FindRecipient(us, messageData.to_user) IN
    (IF r # 0
     THEN << IoTo(rms, cn, us[r].id, "privateMessage", messageData) >>
     ELSE <<>>)
    \o << SocketEmit(cn, id, "privateMessage", messageData) >>

\* the rest of a chatMessage or privateMessage handler: save() resolved
\* (ok) or rejected, then the emits
Saved(i, ok) ==
    /\ i \in 1..Len(pending)
    /\ pending[i].kind # "joinRoom"
    /\ LET p == pending[i] IN
       /\ archive' = IF ok THEN Append(archive, p.messageData) ELSE archive
       /\ out' = AfterTry(ok,
                    IF p.kind = "chatMessage"
                    THEN GroupEmits(rooms, conn, p.messageData)
                    ELSE PrivateEmits(rooms, conn, users, p.id, p.messageData))
       /\ ev' = [kind |-> "saved", id |-> p.id, of |-> p.kind, ok |-> ok,
                 messageData |-> p.messageData]
    /\ pending' = Remove(pending, i)
    /\ logged' = ~ok
    /\ UNCHANGED <<conn, users, rooms>>

\* GroupMessage.find({ room }): the saved group messages of the room (their
\* order by date_sent is not modelled)
HistoryOf(room) ==
    {archive[i] : i \in {j \in 1..Len(archive) :
        "room" \in DOMAIN archive[j] /\ archive[j].room = room}}

\* a history that is sent to the whole room
FoundToRoom(i, ok) ==
    /\ i \in 1..Len(pending)
    /\ pending[i].kind = "joinRoom"
    /\ LET p == pending[i] IN
       /\ out' = IF ok
                 THEN << [via |-> "io.to", to |-> p.room,
                          event |-> "previousMessages",
                          recv |-> {c \in Sockets : /\ conn[c] = "open"
                                                  /\ p.room \in rooms[c]},
                          data |-> [messages |->
                              {archive[j] : j \in {k \in 1..Len(archive) :
                                  /\ "room" \in DOMAIN archive[k]
                                  /\ archive[k].room = p.room}}]] >>
                 ELSE <<>>
       /\ ev' = [kind |-> "found", id |-> p.id, room |-> p.room, ok |-> ok]
    /\ pending' = SubSeq(pending, 1, i - 1) \o SubSeq(pending, i + 1, Len(pending))
    /\ logged' = ~ok
    /\ UNCHANGED <<conn, users, rooms, archive>>

\* the rest of a joinRoom handler: find() resolved (ok) or rejected
Found(i, ok) ==
    /\ i \in 1..Len(pending)
    /\ pending[i].kind = "joinRoom"
    /\ LET p == pending[i] IN
       /\ out' = IF ok
                 THEN << SocketEmit(conn, p.id, "previousMessages",
                                    [messages |-> HistoryOf(p.room)]) >>
                 ELSE <<>>
       /\ ev' = [kind |-> "found", id |-> p.id, room |-> p.room, ok |-> ok]
    /\ pending' = Remove(pending, i)
    /\ logged' = ~ok
    /\ UNCHANGED <<conn, users, rooms, archive>>

\* a routing that falls back to the room when the recipient is not found
TypingEmitsRoomFallback(rms, cn, us, id, room, to_user, event, data) ==
    LET r == IF to_user # "" THEN FindRecipient(us, to_user) ELSE 0 IN
    IF r # 0
    THEN << [via |-> "io.to", to |-> us[r].id, event |-> event,
             recv |-> {c \in Sockets : cn[c] = "open" /\ us[r].id \in rms[c]},
             data |-> data] >>
    ELSE IF room # ""
         THEN << [via |-> "socket.broadcast.to", to |-> room, event |-> event,
                  recv |-> {c \in Sockets : cn[c] = "open" /\ room \in rms[c]}
                           \ {id},
                  data |-> data] >>
         ELSE <<>>

\* the target of a typing or stopTyping signal
TypingEmits(rms, cn, us, id, room, to_user, event, data) ==
    IF to_user # NoRoom
    THEN LET r == FindRecipient(us, to_user) IN
         IF r # 0 THEN << IoTo(rms, cn, us[r].id, event, data) >> ELSE <<>>
    ELSE IF room # NoRoom
         THEN << BroadcastTo(rms, cn, id, room, event, data) >>
         ELSE <<>>

\* a typing handler that stores the signal in the archive
TypingArchived(c, username, room, to_user) ==
    /\ conn[c] = "open"
    /\ out' = TypingEmits(rooms, conn, users, c, room, to_user, "typing",
                          [username |-> username])
    /\ ev' = [kind |-> "typing", id |-> c, username |-> username,
              room |-> room, to_user |-> to_user]
    /\ logged' = FALSE
    /\ archive' = <<[from_user |-> username, room |-> room,
                     message |-> "typing"]>>
    /\ UNCHANGED <<conn, users, rooms, pending>>

\* socket.on('typing')
Typing(c, username, room, to_user) ==
    /\ conn[c] = "open"
    /\ out' = TypingEmits(rooms, conn, users, c, room, to_user, "typing",
                          [username |-> username])
    /\ ev' = [kind |-> "typing", id |-> c, username |-> username,
              room |-> room, to_user |-> to_user]
    /\ logged' = FALSE
    /\ UNCHANGED <<conn, users, rooms, pending, archive>>

\* socket.on('stopTyping')
StopTyping(c, room, to_user) ==
    /\ conn[c] = "open"
    /\ out' = TypingEmits(rooms, conn, users, c, room, to_user, "stopTyping",
                          NoData)
    /\ ev' = [kind |-> "stopTyping", id |-> c, room |-> room,
              to_user |-> to_user]
    /\ logged' = FALSE
    /\ UNCHANGED <<conn, users, rooms, pending, archive>>

\* socket.on('leaveRoom')
LeaveRoom(c) ==
    /\ conn[c] = "open"
    /\ IF ~Has(users, c)
       THEN /\ out' = <<>>
            /\ UNCHANGED <<users, rooms>>
       ELSE LET user == UserOf(users, c)
                rooms1 == SocketLeave(rooms, c, user.room)
            IN /\ rooms' = rooms1
               /\ out' = LeaveEmits(rooms1, conn, users, user)
               /\ users' = Delete(users, c)
    /\ ev' = [kind |-> "leaveRoom", id |-> c]
    /\ logged' = FALSE
    /\ UNCHANGED <<conn, pending, archive>>

\* socket.on('disconnect'): the socket is closed and has left all its rooms
\* when the handler runs
Disconnect(c) ==
    /\ conn[c] = "open"
    /\ conn' = [conn EXCEPT ![c] = "closed"]
    /\ rooms' = [rooms EXCEPT ![c] = {}]
    /\ IF Has(users, c)
       THEN /\ out' = LeaveEmits(rooms', conn', users, UserOf(users, c))
            /\ users' = Delete(users, c)
       ELSE /\ out' = <<>>
            /\ UNCHANGED users
    /\ ev' = [kind |-> "disconnect", id |-> c]
    /\ logged' = FALSE
    /\ UNCHANGED <<pending, archive>>

Next ==
    \/ \E c \in Conns : Connect(c)
    \/ \E c \in Conns, u \in Usernames, r \in JoinRooms : JoinRoom(c, u, r)
    \/ \E c \in Conns, m \in Msgs : ChatMessage(c, m)
    \/ \E c \in Conns, t \in Usernames, m \in Msgs : PrivateMessage(c, t, m)
    \/ \E i \in 1..(MaxFinds + MaxArchive), ok \in BOOLEAN : Saved(i, ok)
    \/ \E i \in 1..(MaxFinds + MaxArchive), ok \in BOOLEAN : Found(i, ok)
    \/ \E c \in Conns, u \in TypingNames, r \in TypingRooms,
          t \in TypingTo : Typing(c, u, r, t)
    \/ \E c \in Conns, r \in TypingRooms, t \in TypingTo :
          StopTyping(c, r, t)
    \/ \E c \in Conns : LeaveRoom(c)
    \/ \E c \in Conns : Disconnect(c)

Spec == Init /\ [][Next]_vars

\* the handlers that bind and unbind, with room names that joinRoom does not
\* validate
NextNames ==
    \/ \E c \in Conns : Connect(c)
    \/ \E c \in Conns, u \in Usernames, r \in NameRooms : JoinRoom(c, u, r)
    \/ \E c \in Conns, m \in Msgs : ChatMessage(c, m)
    \/ \E i \in 1..(MaxFinds + MaxArchive), ok \in BOOLEAN : Saved(i, ok)
    \/ \E i \in 1..(MaxFinds + MaxArchive), ok \in BOOLEAN : Found(i, ok)
    \/ \E c \in Conns : LeaveRoom(c)
    \/ \E c \in Conns : Disconnect(c)

SpecNames == Init /\ [][NextNames]_vars

\* the handlers of a direct message, with a third socket and a room named by
\* the id of a socket
NextDirect ==
    \/ \E c \in Sockets : Connect(c)
    \/ \E c \in Sockets, u \in Usernames, r \in IdRooms : JoinRoom(c, u, r)
    \/ \E c \in Sockets, t \in DirectTo, m \in Msgs : PrivateMessage(c, t, m)
    \/ \E i \in 1..(MaxFinds + MaxArchive), ok \in BOOLEAN : Saved(i, ok)
    \/ \E i \in 1..(MaxFinds + MaxArchive), ok \in BOOLEAN : Found(i, ok)

SpecDirect == Init /\ [][NextDirect]_vars

\* the handlers of a group message, with two saves awaited at a time
NextOrder ==
    \/ \E c \in Conns : Connect(c)
    \/ \E c \in Conns, u \in Usernames, r \in JoinRooms : JoinRoom(c, u, r)
    \/ \E c \in Conns, m \in OrderMsgs :
          ChatMessageWithin(MaxArchive + 1, c, m)
    \/ \E i \in 1..(MaxFinds + MaxArchive + 1), ok \in BOOLEAN : Saved(i, ok)
    \/ \E i \in 1..(MaxFinds + MaxArchive + 1), ok \in BOOLEAN : Found(i, ok)

SpecOrder == Init /\ [][NextOrder]_vars

\* ------------------------------------------------------------------ claims

AllRooms == ROOMS \cup {NoRoom}

\* the sockets whose registry entry has room r
BoundTo(us, r) == {c \in Sockets : Has(us, c) /\ UserOf(us, c).room = r}

\* the step handles a departure of a joined socket from its room: a
\* disconnect, a leaveRoom, or a joinRoom naming another room
IsDeparture ==
    /\ ev'.kind \in {"disconnect", "leaveRoom", "joinRoom"}
    /\ Has(users, ev'.id)
    /\ UserOf(users, ev'.id).room # NoRoom
    /\ ev'.kind = "joinRoom" => UserOf(users, ev'.id).room # ev'.room

\* C1: the roster sent to the former room on a departure (disconnect, leave,
\* or join of another room) and received by some socket lists exactly the
\* sessions still bound to that room after the event, so not the departing
\* one.
C1_DepartureRosterOmitsDeparted ==
    [][IsDeparture =>
        LET former == UserOf(users, ev'.id).room IN
        /\ Len(out') >= 2
        /\ out'[2].event = "roomUsers"
        /\ out'[2].to = former
        /\ out'[2].recv # {} =>
             /\ Len(out'[2].data.users) = Cardinality(BoundTo(users', former))
             /\ \A u \in Usernames :
                  (\E i \in 1..Len(out'[2].data.users) :
                       out'[2].data.users[i].username = u)
                  <=> (\E c \in BoundTo(users', former) :
                       UserOf(users', c).username = u)
      ]_vars

\* C2: in every reachable state, for every room, getRoomUsers(room) holds
\* exactly one entry per open socket whose registry entry has that room: no
\* entry of a closed socket or of one that left, none missing, none twice.
C2_MembersOfMatchesLiveSessions ==
    /\ \A i, j \in 1..Len(users) : users[i].id = users[j].id => i = j
    /\ \A i \in 1..Len(users) : conn[users[i].id] = "open"
    /\ \A r \in AllRooms :
         LET m == getRoomUsers(users, r)
             live == {c \in Conns : /\ conn[c] = "open"
                                    /\ \E i \in 1..Len(users) :
                                         users[i].id = c /\ users[i].room = r}
         IN /\ Len(m) = Cardinality(live)
            /\ \A u \in Usernames :
                 Cardinality({i \in 1..Len(m) : m[i].username = u})
                 = Cardinality({c \in live : \E i \in 1..Len(users) :
                       users[i].id = c /\ users[i].username = u})

\* a socket has disconnected while another is still listed in a room
C2_Witness ==
    /\ ev.kind = "disconnect"
    /\ Len(out) = 2
    /\ \E r \in ROOMS : Len(getRoomUsers(users, r)) = 1

C4_GroupMessageReachesRoomAndSender ==
    (ev.kind = "saved" /\ ev.of = "chatMessage" /\ conn[ev.id] = "open") =>
        /\ Len(out) = 1
        /\ out[1].recv = BoundTo(users, ev.messageData.room) \cup {ev.id}

\* the socket a pending private message would be delivered to, {} if none
DirectTarget(us, p) ==
    LET r == FindRecipient(us, p.messageData.to_user) IN
    IF r = 0 THEN {} ELSE {us[r].id}

\* C5: whether and to whom a direct message from A to another identity B is
\* delivered is fixed when its event is received: no join, leave or
\* disconnect of another socket that happens while the archive append is
\* pending changes the socket it will be delivered to.
C5_DirectDeliveryFixedAtSend ==
    [][\A i \in 1..Len(pending), j \in 1..Len(pending') :
          (/\ pending[i].kind = "privateMessage"
           /\ pending[i].messageData.to_user # pending[i].messageData.from_user
           /\ Has(users, pending[i].id) /\ Has(users', pending[i].id)
           /\ UserOf(users', pending[i].id) = UserOf(users, pending[i].id)
           /\ pending'[j] = pending[i])
          => DirectTarget(users', pending[i]) = DirectTarget(users, pending[i])
      ]_vars

\* C6: the handler of a group or direct message from a socket with a
\* session emits the message in the step that receives the event, without
\* waiting for the archive append.
C6_DeliveryNotBehindPersistence ==
    (ev.kind \in {"chatMessage", "privateMessage"} /\ Has(users, ev.id)) =>
        \E i \in 1..Len(out) : out[i].data.message = ev.message

\* C7: when the archive append of a message fails, the failure is logged,
\* the group message is still broadcast to its room, the direct message is
\* still sent to the recipient found and echoed to the sender, nothing else
\* is emitted, and registry, rooms and archive are unchanged.
C7_ArchiveFailureOnlyLogged ==
    [][(ev'.kind = "saved" /\ ~ev'.ok) =>
        LET md == ev'.messageData
            echo == [via |-> "socket.emit", to |-> ev'.id,
                     event |-> "privateMessage",
                     recv |-> IF conn[ev'.id] = "open" THEN {ev'.id} ELSE {},
                     data |-> md]
        IN /\ logged'
           /\ users' = users /\ rooms' = rooms /\ archive' = archive
           /\ conn' = conn
           /\ ev'.of = "chatMessage" =>
                out' = << [via |-> "io.to", to |-> md.room, event |-> "message",
                           recv |-> {c \in Conns :
                                       conn[c] = "open" /\ md.room \in rooms[c]},
                           data |-> md] >>
           /\ ev'.of = "privateMessage" =>
                IF \E i \in 1..Len(users) : users[i].username = md.to_user
                THEN /\ Len(out') = 2
                     /\ out'[1].event = "privateMessage"
                     /\ out'[1].data = md
                     /\ \E i \in 1..Len(users) :
                          /\ users[i].username = md.to_user
                          /\ out'[1].to = users[i].id
                     /\ out'[2] = echo
                ELSE out' = << echo >>
      ]_vars

\* a failed save of a direct message whose recipient is online
C7_Witness ==
    /\ ev.kind = "saved"
    /\ ~ev.ok
    /\ ev.of = "privateMessage"
    /\ Len(out) = 2
    /\ out[1].recv # {}
    /\ out[2].recv # {}

\* C8: the disconnect of a socket with a registry entry removes that entry
\* (and no other) and emits one 'left' notice and one roster to its room,
\* nothing else; the disconnect of a socket without an entry emits nothing
\* and leaves the registry as it was.
C8_DisconnectRemovesAndNotifiesOnce ==
    [][ev'.kind = "disconnect" =>
        IF Has(users, ev'.id)
        THEN LET user == UserOf(users, ev'.id) IN
             /\ ~Has(users', ev'.id)
             /\ \A r \in AllRooms : ev'.id \notin BoundTo(users', r)
             /\ \A c \in Conns \ {ev'.id} :
                  /\ Has(users', c) <=> Has(users, c)
                  /\ Has(users, c) => UserOf(users', c) = UserOf(users, c)
             /\ Len(out') = 2
             /\ out'[1].event = "message" /\ out'[1].to = user.room
             /\ out'[1].data.message = HasLeft(user.username)
             /\ out'[2].event = "roomUsers" /\ out'[2].to = user.room
             /\ out'[1].recv = out'[2].recv
        ELSE /\ out' = <<>>
             /\ users' = users
      ]_vars

\* a joined socket has disconnected and another socket got the notice
C8_Witness ==
    /\ ev.kind = "disconnect"
    /\ conn[ev.id] = "closed"
    /\ Len(out) = 2
    /\ out[1].recv # {}

\* C9: a chatMessage, privateMessage, typing, stopTyping or leaveRoom from
\* a socket without a registry entry reaches no socket, suspends no handler,
\* writes nothing to the archive and leaves the registry as it was.
C9_EventWithoutSessionIsNoOp ==
    [][(/\ ev'.kind \in {"chatMessage", "privateMessage", "typing",
                         "stopTyping", "leaveRoom"}
        /\ ~Has(users, ev'.id)) =>
        /\ \A i \in 1..Len(out') : out'[i].recv = {}
        /\ users' = users
        /\ pending' = pending
        /\ archive' = archive
      ]_vars

C11_JoinNoticesAndRoster ==
    [][ev'.kind = "joinRoom" =>
        LET C == ev'.id
            R == ev'.room
            n == Len(out')
            bound == BoundTo(users', R)
        IN /\ n \in {3, 5}
           /\ out'[n - 2].via = "socket.emit" /\ out'[n - 2].event = "message"
           /\ out'[n - 2].data.message = Welcome
           /\ out'[n - 2].recv = {C}
           /\ out'[n - 1].event = "message" /\ out'[n - 1].to = R
           /\ out'[n - 1].data.message = HasJoined(ev'.username)
           /\ bound \ {C} \subseteq out'[n - 1].recv
           /\ C \notin out'[n - 1].recv
           /\ out'[n].event = "roomUsers" /\ out'[n].to = R
           /\ bound \subseteq out'[n].recv
           /\ C \in bound
           /\ \E i \in 1..Len(out'[n].data.users) :
                out'[n].data.users[i] = [username |-> ev'.username, room |-> R]
           /\ \A i \in 1..n :
                (out'[i].event = "message" /\ out'[i].data.message = Welcome)
                => i = n - 2
      ]_vars

\* a socket has joined a room another socket is in
C11_Witness ==
    /\ ev.kind = "joinRoom"
    /\ Len(out) = 3
    /\ out[2].recv # {}
    /\ Cardinality(out[3].recv) = 2

\* C12: a typing or stopTyping step leaves the registry, the rooms, the
\* archive and the suspended handlers (so the pending archive writes) as
\* they were.
C12_TypingChangesNoState ==
    [][ev'.kind \in {"typing", "stopTyping"} =>
        /\ users' = users
        /\ rooms' = rooms
        /\ archive' = archive
        /\ pending' = pending
        /\ ~logged'
      ]_vars

\* a typing signal was relayed to a socket while the archive holds a message
C12_Witness ==
    /\ ev.kind = "typing"
    /\ Len(out) = 1
    /\ out[1].recv # {}
    /\ Len(archive) = 1
    /\ Len(users) = 2

TargetedName ==
    IF ev'.kind = "saved" /\ ev'.of = "privateMessage"
    THEN ev'.messageData.to_user
    ELSE IF ev'.kind \in {"typing", "stopTyping"} THEN ev'.to_user
    ELSE NoRoom

IsArrival ==
    /\ ev'.kind = "joinRoom"
    /\ ~(Has(users, ev'.id) /\ UserOf(users, ev'.id).room = ev'.room)

\* C15 as stated: the roster of a room is ordered by arrival in the room, so
\* a session that arrives, also by switching from another room, comes after
\* every session already bound to the room.
C15_RosterOrderedByArrival ==
    [][IsArrival =>
        \A k \in 1..Len(users') :
            (users'[k].room = ev'.room /\ users'[k].id # ev'.id)
            => k < IndexOf(users', ev'.id)
      ]_vars

\* C15 as amended: the roster of a room lists its sessions in the order
\* their registry entries were created: the roster a join emits is the
\* entries with that room in registry order, a joiner that has an entry
\* (a switch from another room) keeps the place of that entry, and a joiner
\* without an entry goes last.
C15_RosterInRegistryOrder ==
    [][ev'.kind = "joinRoom" =>
        LET id == ev'.id
            R == ev'.room
            ro == out'[Len(out')].data.users
            idx == {k \in 1..Len(users') : users'[k].room = R}
        IN /\ out'[Len(out')].event = "roomUsers"
           /\ Len(ro) = Cardinality(idx)
           /\ \A k \in idx :
                ro[Cardinality({m \in idx : m <= k})]
                = [username |-> users'[k].username, room |-> R]
           /\ Has(users, id) =>
                /\ Len(users') = Len(users)
                /\ IndexOf(users', id) = IndexOf(users, id)
           /\ ~Has(users, id) =>
                /\ Len(users') = Len(users) + 1
                /\ IndexOf(users', id) = Len(users')
      ]_vars

\* a socket switched into a room where another socket already was, and is
\* listed before it
C15_Witness ==
    /\ ev.kind = "joinRoom"
    /\ Len(out) = 5
    /\ out[1].to # ev.room
    /\ Len(users) = 2
    /\ users[1].id = ev.id
    /\ users[2].room = ev.room
    /\ users[1].username # users[2].username
    /\ out[5].data.users[1].username = ev.username

\* the joinRoom step names the room and the username its socket already has
IsRejoin ==
    /\ ev'.kind = "joinRoom"
    /\ ev'.room # NoRoom
    /\ Has(users, ev'.id)
    /\ UserOf(users, ev'.id).username = ev'.username
    /\ UserOf(users, ev'.id).room = ev'.room

EmitsHistory == \E k \in 1..Len(out') : out'[k].event = "previousMessages"

\* C17: the history goes to the joining socket alone, in a later step than
\* the one that emitted the join's notices and roster, and a failed fetch
\* emits nothing, is logged, and leaves the registry and the transport rooms
\* as the join made them.
C17_HistoryPrivateAfterJoin ==
    [][/\ EmitsHistory =>
            /\ ev'.kind = "found"
            /\ ev'.ok
            /\ Len(out') = 1
            /\ out'[1].via = "socket.emit"
            /\ out'[1].to = ev'.id
            /\ out'[1].recv \subseteq {ev'.id}
       /\ ev'.kind = "joinRoom" =>
            /\ Len(out') >= 3
            /\ out'[Len(out')].event = "roomUsers"
            /\ pending' = Append(pending, [kind |-> "joinRoom", id |-> ev'.id,
                                           room |-> ev'.room])
       /\ ev'.kind = "found" =>
            /\ \E i \in 1..Len(pending) :
                 /\ pending[i] = [kind |-> "joinRoom", id |-> ev'.id,
                                  room |-> ev'.room]
                 /\ pending' = Remove(pending, i)
            /\ users' = users
            /\ rooms' = rooms
            /\ ~ev'.ok => (out' = <<>> /\ logged')
      ]_vars

\* a socket that joined a room with an archived message and another member
\* received the history, and the other member did not
C17_Witness ==
    /\ ev.kind = "found"
    /\ ev.ok
    /\ Len(out) = 1
    /\ out[1].event = "previousMessages"
    /\ out[1].recv = {ev.id}
    /\ out[1].data.messages # {}
    /\ BoundTo(users, ev.room) = Conns

\* C18 as stated: after every handler the open sockets that a broadcast to
\* room R reaches are the sockets whose registry entry has room R, and a
\* socket is in at most one room besides the one named by its own id.
C18_TransportMatchesRegistry ==
    /\ \A R \in AllRooms : InRoom(rooms, conn, R) = BoundTo(users, R)
    /\ \A c \in Sockets : Cardinality(rooms[c] \ {c}) <= 1

\* C19 as stated: a direct message from one socket to another reaches no
\* socket besides the resolved recipient's and the sender's, whatever rooms
\* the other sockets joined.
C19_DirectOnlyRecipientAndSender ==
    (/\ ev.kind = "saved"
     /\ ev.of = "privateMessage"
     /\ Len(out) = 2
     /\ out[1].to # ev.id)
    => \A k \in 1..Len(out) : out[k].recv \subseteq {out[1].to, ev.id}

\* C20 as stated: group messages of one socket to one room are broadcast in
\* the order they were sent, whichever save settles first: a broadcast that
\* the sender itself receives is never that of a message sent after one of
\* the same socket and room that is still to be broadcast.
C20_GroupMessagesInSendOrder ==
    [][(/\ ev'.kind = "saved"
        /\ ev'.of = "chatMessage"
        /\ Len(out') = 1
        /\ ev'.id \in out'[1].recv)
       => \E i \in 1..Len(pending) :
            /\ pending[i] = [kind |-> "chatMessage", id |-> ev'.id,
                             messageData |-> ev'.messageData]
            /\ pending' = Remove(pending, i)
            /\ \A j \in 1..(i - 1) :
                 ~(/\ pending[j].kind = "chatMessage"
                   /\ pending[j].id = ev'.id
                   /\ pending[j].messageData.room = ev'.messageData.room)
      ]_vars

====
